---- MODULE Spec2Model ----
(***************************************************************************)
(* The file-backed authentication and session manager of the AI PM         *)
(* toolkit (src/src/auth_manager.py, class AuthenticationManager).         *)
(*                                                                         *)
(* State: the two backing files (users.json, sessions.json), the           *)
(* configuration loaded by the constructor, and the wall clock.  No        *)
(* collection is cached between calls: every operation re-loads the file   *)
(* it works on, and loading the session file filters it through            *)
(* _cleanup_expired_sessions.                                              *)
(*                                                                         *)
(* Two specifications share the operations.  Spec starts from the state    *)
(* the constructor leaves in a fresh directory.  SpecStore starts from     *)
(* backing files left behind by earlier runs or edited by hand: absent,    *)
(* unparsable, or holding records of which some are expired, inactive or   *)
(* lack a field.                                                           *)
(*                                                                         *)
(* Further specifications look at the manager's surroundings.  SpecWeb is  *)
(* the Flask application (src/web/app.py): its register, login and guest   *)
(* endpoints and a route under require_auth, in a process started from the *)
(* application's directory or from another one.  SpecRace runs calls in    *)
(* several request threads, each load and each save being a step of its    *)
(* own.  SpecDisk has an auth directory that may refuse writes.            *)
(* SpecInstances constructs managers one after another over a directory    *)
(* whose auth_config.json may lack the secret key.  SpecInstaller is       *)
(* _resolve_dependencies of src/core/installer.py on small tool lists.     *)
(*                                                                         *)
(* Time is counted in whole hours.  Every datetime.now() of one call reads *)
(* the same instant: a call is one atomic step and the clock moves only    *)
(* between calls (Tick).                                                   *)
(*                                                                         *)
(* Strings that the code transforms (emails, passwords, the secret key)    *)
(* are sequences of characters, so that lower() and the concatenation      *)
(* password + salt are computed, not assumed.  ip_address and user_agent   *)
(* are stored and returned untouched by every operation and are left out.  *)
(***************************************************************************)
EXTENDS Integers, Sequences, FiniteSets, TLC

(* ------------------------------ bounds --------------------------------- *)

\* Largest clock value (hours since construction).
MaxTime == 1

\* Number of accounts create_user may add beside the default account.
MaxUsers == 1

\* Number of session tokens the token generator hands out.
MaxTokens == 1

\* Number of edits an administrator makes to the backing files.
MaxAdminEdits == 1

\* Number of secret keys the configurations of successive managers keep.
MaxKeys == 2

\* Number of request threads that run one call each at the same time.
NumThreads == 2

\* Largest number of entries in the installer's tool list.
MaxTools == 3

(* ------------------------- program constants ---------------------------- *)

\* timedelta(hours=2) of guest_session.
GuestTimeoutHours == 2

DefaultUserId == <<"default_pm", 0>>

\* "pm@aipmtoolkit.local"
DefaultEmail == <<"p", "m">>

\* "aipm2025"
DefaultPassword == <<"aipm2025">>

GenericError == "Invalid email or password"

DisabledError == "User account is disabled"

\* Path(__file__).parent.parent of app.py, the directory the application's
\* manager is built over, and any other directory.
AppRoot == "app"

Elsewhere == "elsewhere"

\* require_auth's answer when the request carries no token.
AuthRequiredError == "Authentication required"

\* api_register's answer when the configuration closes registration.
RegistrationDisabledError == "Registration is currently disabled"

\* api_register's answer when a field is missing or blank.
RegisterFieldsError == "Email, name, and password are required"

\* api_login's answer when a field is missing or blank.
LoginFieldsError == "Email and password are required"

\* create_user's answer on an email collision.
EmailExistsError == "User with this email already exists"

\* What a stored field holds when the record lacks it or when it does not
\* parse as an ISO timestamp.
Malformed == -1

\* The keys of role_hierarchy in require_role.
Roles == {"viewer", "pm", "admin"}

(* ------------------------------ inputs ---------------------------------- *)

EmailInputs == {<<"a">>, <<"A">>, <<"P", "M">>}

PasswordInputs == {<<"x">>, <<"y">>}

NameInputs == {"Alice"}

RoleInputs == {"pm"}

SecretKeys == {<<"k">>}

\* Values of session_timeout_hours a stored configuration may set.
TimeoutInputs == {1, 3}

\* Tokens a caller may present: 0 is the empty string, the others are the
\* values the token generator hands out (issued already or not).
TokenInputs == 0..MaxTokens

\* Minimum roles a route may ask for: the three roles and one that
\* role_hierarchy does not know.
RequiredRoleInputs == Roles \cup {"owner"}

\* The token and the user id of the records a store may hold at start; the
\* generators of this run never produce them.
StoredTokens == {-1}

StoredUserId == <<"uuid", 0>>

\* The email the calls on such a store use: the stored account's, in another
\* letter case.
StoredEmailInputs == {<<"A">>}

\* The fields the web endpoints receive in a request body: a value, a value
\* with surrounding blanks, blanks only, nothing.
WebEmailInputs == {<<"a">>, <<" ", "A">>, <<" ">>}

WebNameInputs == {<<"n">>, <<" ">>}

WebPasswordInputs == {<<"x">>, <<>>}

\* The tool names of the installer's configuration, and a name that a
\* depends_on list mentions but no tool of the list carries.
ToolNames == {"a", "b", "c"}

MissingTool == "z"

\* The depends_on lists: empty, one name, two distinct names.
DependsInputs ==
    {<<>>} \cup {<<x>> : x \in ToolNames \cup {MissingTool}}
           \cup {q \in {<<x, y>> : x \in ToolNames, y \in ToolNames} : q[1] # q[2]}

VARIABLES
    config,         \* self.config: the merged auth_config.json
    file_state,     \* of users.json and of sessions.json: "absent",
                    \* "unparsable" or "json"
    users_file,     \* auth/users.json when it is JSON: user_id -> record
    sessions_file,  \* auth/sessions.json when it is JSON: session_id -> record
    now,            \* the wall clock, in hours
    next_uid,       \* number of uuid4 values drawn so far
    next_token,     \* number of session tokens drawn so far
    res,            \* what the last call was and what it returned
    prev,           \* res of the call before the last one, kept when that call
                    \* was a successful create_user, authenticate_user or
                    \* logout_user
    admin_edits,    \* number of edits an administrator made to the files
    procs,          \* the calls in flight in concurrent request threads:
                    \* each one's position, arguments, loaded copies, result
    tools,          \* the installer's tool list: dicts with name, depends_on
    resolution,     \* what _resolve_dependencies(tools) did, once called
    cwd,            \* the process's current working directory
    cwd_auth,       \* ./auth when cwd is not the application's directory:
                    \* its secret_key, file_state, users_file, sessions_file
    config_file,    \* auth/auth_config.json: "absent", "unparsable" or
                    \* "json", and the secret_key it holds (<<>> for none)
    next_key,       \* number of secret keys drawn and kept so far
    writable        \* whether files in auth/ can be opened for writing

\* The installer's state.
installer == <<tools, resolution>>

\* The working directory and the auth directory under it.
web_dirs == <<cwd, cwd_auth>>

\* The stored configuration and the key generator.
stored_config == <<config_file, next_key>>

\* The state the calls of one manager in one thread leave alone.
rest == <<procs, installer, web_dirs, stored_config, writable>>

vars == <<config, file_state, users_file, sessions_file, now, next_uid, next_token,
          res, prev, admin_edits, rest>>

(* ----------------------------- helpers ---------------------------------- *)

\* The empty mapping {}.
EmptyMap == [x \in {} |-> x]

\* d with key k removed (del d[k]).
Remove(d, k) == [x \in (DOMAIN d) \ {k} |-> d[x]]

\* d with d[k] = v (insert or overwrite).
Put(d, k, v) == [x \in (DOMAIN d) \cup {k} |-> IF x = k THEN v ELSE d[x]]

LowerChar(c) ==
    CASE c = "A" -> "a"
      [] c = "P" -> "p"
      [] c = "M" -> "m"
      [] OTHER -> c

\* str.lower()
Lower(s) == [i \in DOMAIN s |-> LowerChar(s[i])]

\* hashlib.sha256((password + secret_key).encode()).hexdigest(), see
\* HashPassword.
HashWith(password, secret_key) == password \o secret_key

\* The n-th value secrets.token_urlsafe(32) hands out that a configuration
\* keeps: n letters, so that two draws differ.
SecretKey(n) == [i \in 1..n |-> "k"]

\* Mutant of HashPassword: the digest ignores the password.
HashPasswordSaltOnly(password) == config.secret_key

\* _hash_password: sha256 of password + salt.  sha256 is taken to be
\* injective, so the digest is identified with the string it is computed from.
HashPassword(password) == HashWith(password, config.secret_key)

\* The result record of a call; the fields a call does not return keep these
\* values.  success also holds validate_session's 'valid' and require_role's
\* grant; raised names the exception when the call raised instead of
\* returning; value holds a returned collection.
NoResult ==
    [op |-> "none", email |-> <<>>, password |-> <<>>, session_id |-> 0,
     success |-> FALSE, error |-> "", user_id |-> <<>>, role |-> "",
     required_role |-> "", raised |-> "", value |-> EmptyMap]

\* datetime.fromisoformat succeeds on the stored field.
Parsable(field) == field # Malformed

\* Mutant of CleanupExpiredSessions: the active flag is not looked at.
CleanupExpiredSessionsAnyFlag(sessions, t) ==
    [s \in {x \in DOMAIN sessions :
                /\ Parsable(sessions[x].expires_at)
                /\ sessions[x].expires_at > t} |-> sessions[s]]

\* Mutant of CleanupExpiredSessions: a record is kept up to and including its
\* expiry instant.
CleanupExpiredSessionsInclusive(sessions, t) ==
    [s \in {x \in DOMAIN sessions :
                /\ Parsable(sessions[x].expires_at)
                /\ sessions[x].expires_at >= t
                /\ sessions[x].is_active} |-> sessions[s]]

\* _cleanup_expired_sessions: the records that are not yet expired and
\* active; a record whose expires_at does not parse is skipped.
CleanupExpiredSessions(sessions, t) ==
    [s \in {x \in DOMAIN sessions :
                /\ Parsable(sessions[x].expires_at)
                /\ sessions[x].expires_at > t
                /\ sessions[x].is_active} |-> sessions[s]]

\* Mutant of JsonLoad: the parse error is not caught.
JsonLoadUncaught(state, content) ==
    IF state = "unparsable"
    THEN [raised |-> "JSONDecodeError", value |-> EmptyMap]
    ELSE [raised |-> "", value |-> IF state = "json" THEN content ELSE EmptyMap]

\* The body shared by _load_users and _load_sessions: {} when the file does
\* not exist, {} when json.load raises (the except clause swallows it), the
\* parsed mapping otherwise.
JsonLoad(state, content) ==
    [raised |-> "", value |-> IF state = "json" THEN content ELSE EmptyMap]

\* _load_users as a call: what it raises and what it returns.
LoadUsersCall == JsonLoad(file_state.users, users_file)

\* _load_sessions at time t as a call: the parsed mapping goes through
\* _cleanup_expired_sessions inside the try.
LoadSessionsCall(t) ==
    LET parsed == JsonLoad(file_state.sessions, sessions_file)
    IN  [parsed EXCEPT !.value = CleanupExpiredSessions(parsed.value, t)]

\* _load_users
LoadUsers == LoadUsersCall.value

\* _load_sessions at time t.
LoadSessions(t) == LoadSessionsCall(t).value

\* Mutant of WriteFile: the mapping is merged into what the file holds.
WriteFileMerging(stored, mapping) ==
    [k \in DOMAIN stored \cup DOMAIN mapping |->
        IF k \in DOMAIN mapping THEN mapping[k] ELSE stored[k]]

\* _save_users and _save_sessions of the application's manager: open(file,
\* 'w') and json.dump(mapping, f) replace the file's content; when the file
\* cannot be opened for writing the exception is printed and dropped, and
\* the file keeps what it held.
WriteFile(stored, mapping) == IF writable THEN mapping ELSE stored

\* The state of a file after _save_users or _save_sessions.
WrittenState(state) == IF writable THEN "json" ELSE state

\* Mutant of EmailTaken: the emails are compared as written.
EmailTakenExact(users, email) ==
    \E u \in DOMAIN users : users[u].email = email

\* Mutant of EmailTaken: only active records are scanned.
EmailTakenActiveOnly(users, email) ==
    \E u \in DOMAIN users :
        users[u].is_active /\ Lower(users[u].email) = Lower(email)

\* create_user's scan for an existing record with the same email.
EmailTaken(users, email) ==
    \E u \in DOMAIN users : Lower(users[u].email) = Lower(email)

\* Mutant of FindUsersByEmail: the emails are compared as written.
FindUsersByEmailExact(users, email) ==
    {u \in DOMAIN users : users[u].email = email}

\* authenticate_user's lookup: the records whose email matches.  The code
\* takes the first one in file order.
FindUsersByEmail(users, email) ==
    {u \in DOMAIN users : Lower(users[u].email) = Lower(email)}

\* The request threads.
Threads == 1..NumThreads

\* A thread that has not been given a call: pc is the position in the call,
\* users and sessions are the mappings the call has loaded into memory.
IdleCall ==
    [pc |-> "idle", op |-> "none", email |-> <<>>, password |-> <<>>,
     session_id |-> 0, user_id |-> <<>>, users |-> EmptyMap,
     sessions |-> EmptyMap, success |-> FALSE, error |-> ""]

NoCalls == [p \in Threads |-> IdleCall]

\* The installer before _resolve_dependencies has been called.
NotResolved == [done |-> FALSE, raised |-> "", resolved |-> <<>>]

\* A directory without an auth directory under it.
EmptyDir ==
    [config_file |-> [state |-> "absent", secret_key |-> <<>>],
     file_state |-> [users |-> "absent", sessions |-> "absent"],
     users_file |-> EmptyMap, sessions_file |-> EmptyMap,
     writable |-> TRUE]

(* ------------------------------- Init ----------------------------------- *)

\* The record _initialize_default_users writes for the default account.
DefaultUser ==
    [user_id |-> DefaultUserId, email |-> DefaultEmail,
     name |-> "Product Manager", role |-> "pm",
     last_login |-> <<>>, is_active |-> TRUE,
     password_hash |-> HashPassword(DefaultPassword)]

\* __init__ on a fresh directory: the configuration is loaded (a stored
\* auth_config.json may override session_timeout_hours and
\* enable_guest_mode), and _initialize_default_users provisions the default
\* account.  sessions.json does not exist yet.
Init ==
    /\ config \in [session_timeout_hours : TimeoutInputs,
                   enable_guest_mode : BOOLEAN,
                   allow_registration : {TRUE},
                   default_role : {"pm"},
                   secret_key : SecretKeys]
    /\ file_state = [users |-> "json", sessions |-> "absent"]
    /\ users_file = Put(EmptyMap, DefaultUserId, DefaultUser)
    /\ sessions_file = EmptyMap
    /\ now = 0
    /\ next_uid = 0
    /\ next_token = 0
    /\ res = NoResult
    /\ prev = NoResult
    /\ admin_edits = 0
    /\ procs = NoCalls
    /\ cwd = AppRoot
    /\ cwd_auth = EmptyDir
    /\ config_file = [state |-> "json", secret_key |-> config.secret_key]
    /\ next_key = 1
    /\ writable = TRUE
    /\ tools = <<>>
    /\ resolution = NotResolved

\* A record of users.json as create_user writes it, left by an earlier run.
StoredUser ==
    [user_id |-> StoredUserId, email |-> <<"a">>,
     name |-> "Alice", role |-> "pm",
     last_login |-> <<>>, is_active |-> TRUE,
     password_hash |-> HashPassword(<<"x">>)]

\* The records users.json may hold at start under StoredUserId: the account
\* with each role, disabled, without its user_id, without its
\* password_hash.
StoredUserRecords ==
    {[StoredUser EXCEPT !.role = r] : r \in Roles}
    \cup {[StoredUser EXCEPT !.is_active = FALSE],
          [StoredUser EXCEPT !.user_id = <<>>],
          [StoredUser EXCEPT !.password_hash = <<>>]}

\* A record of sessions.json as authenticate_user wrote it for the token s,
\* with two hours left.
StoredSession(s) ==
    [session_id |-> s, user_id |-> StoredUserId,
     created_at |-> 0, expires_at |-> 2,
     last_active |-> 0, is_active |-> TRUE]

\* The records sessions.json may hold at start under the token s: live,
\* with one hour left, expiring at this instant, revoked, with an expires_at
\* that does not parse, without its user_id, without its last_active.
StoredSessionRecords(s) ==
    {StoredSession(s),
     [StoredSession(s) EXCEPT !.expires_at = 1],
     [StoredSession(s) EXCEPT !.expires_at = 0],
     [StoredSession(s) EXCEPT !.is_active = FALSE],
     [StoredSession(s) EXCEPT !.expires_at = Malformed],
     [StoredSession(s) EXCEPT !.user_id = <<>>],
     [StoredSession(s) EXCEPT !.last_active = Malformed]}

\* A manager over a directory an earlier run has used: its configuration was
\* loaded, and each backing file is absent, unparsable, or a JSON object
\* holding at most one of the stored records.
InitStore ==
    /\ config \in [session_timeout_hours : {1},
                   enable_guest_mode : {TRUE},
                   allow_registration : {TRUE},
                   default_role : {"pm"},
                   secret_key : SecretKeys]
    /\ file_state \in [users : {"absent", "unparsable", "json"},
                       sessions : {"absent", "unparsable", "json"}]
    /\ users_file \in
          IF file_state.users = "json"
          THEN {EmptyMap} \cup {Put(EmptyMap, StoredUserId, r) : r \in StoredUserRecords}
          ELSE {EmptyMap}
    /\ sessions_file \in
          IF file_state.sessions = "json"
          THEN {EmptyMap} \cup
               UNION {{Put(EmptyMap, s, r) : r \in StoredSessionRecords(s)} :
                         s \in StoredTokens}
          ELSE {EmptyMap}
    /\ now = 0
    /\ next_uid = 0
    /\ next_token = 0
    /\ res = NoResult
    /\ prev = NoResult
    /\ admin_edits = 0
    /\ procs = NoCalls
    /\ cwd = AppRoot
    /\ cwd_auth = EmptyDir
    /\ config_file = [state |-> "json", secret_key |-> config.secret_key]
    /\ next_key = 1
    /\ writable = TRUE
    /\ tools = <<>>
    /\ resolution = NotResolved

\* The history kept in prev once the next call has happened.
PrevAfter ==
    IF res.success /\ res.op \in {"create_user", "authenticate_user", "logout_user"}
    THEN res ELSE NoResult

(* ----------------------------- operations ------------------------------- *)

\* Mutant of NoUsers: the default account is provisioned on every
\* construction.
NoUsersAlways(users) == TRUE

\* _initialize_default_users' test "not users".
NoUsers(users) == users = EmptyMap

\* The auth directory of the application's manager, as one value.
AppAuth ==
    [config_file |-> config_file, file_state |-> file_state,
     users_file |-> users_file, sessions_file |-> sessions_file,
     writable |-> writable]

\* _save_users(users) in the auth directory d: the directory afterwards.  A
\* file that cannot be opened for writing stays as it is, and the exception
\* is printed and dropped.
SaveUsersIn(d, users) ==
    IF d.writable
    THEN [d EXCEPT !.users_file = users, !.file_state.users = "json"]
    ELSE d

\* _save_sessions(sessions) in the auth directory d, likewise.
SaveSessionsIn(d, sessions) ==
    IF d.writable
    THEN [d EXCEPT !.sessions_file = sessions, !.file_state.sessions = "json"]
    ELSE d

\* _load_auth_config() in the auth directory d, where fresh is the
\* secrets.token_urlsafe(32) value put in default_config: the secret_key of
\* the configuration returned, and the file afterwards.  A stored file is
\* merged with the defaults in memory and not written back; a file that
\* cannot be parsed, or cannot be created, leaves the defaults.
LoadAuthConfigIn(d, fresh) ==
    IF d.config_file.state = "json"
    THEN [secret_key |-> IF d.config_file.secret_key # <<>>
                         THEN d.config_file.secret_key ELSE fresh,
          config_file |-> d.config_file]
    ELSE IF d.config_file.state = "absent" /\ d.writable
    THEN [secret_key |-> fresh,
          config_file |-> [state |-> "json", secret_key |-> fresh]]
    ELSE [secret_key |-> fresh, config_file |-> d.config_file]

\* The default account as a manager with the given secret_key writes it.
DefaultUserWith(secret_key) ==
    [DefaultUser EXCEPT !.password_hash = HashWith(DefaultPassword, secret_key)]

\* _initialize_default_users() by a manager with the given secret_key over
\* the auth directory d: the directory afterwards.
InitializeDefaultUsersIn(d, secret_key) ==
    LET users == JsonLoad(d.file_state.users, d.users_file).value
    IN  IF NoUsers(users)
        THEN SaveUsersIn(d, Put(users, DefaultUserId, DefaultUserWith(secret_key)))
        ELSE d

\* AuthenticationManager(working_dir) over the auth directory d: the
\* secret_key of the new manager's configuration, whether it is the value
\* drawn for this construction, and the directory afterwards.
ConstructIn(d) ==
    LET fresh == SecretKey(next_key + 1)
        loaded == LoadAuthConfigIn(d, fresh)
    IN  [secret_key |-> loaded.secret_key,
         drew |-> loaded.secret_key = fresh,
         dir |-> InitializeDefaultUsersIn(
                     [d EXCEPT !.config_file = loaded.config_file],
                     loaded.secret_key)]

\* __init__ of a further manager over the application's directory, which
\* takes the place of the one before: the configuration is loaded and
\* _initialize_default_users runs.
Construct ==
    LET out == ConstructIn(AppAuth)
    IN  /\ out.drew => next_key < MaxKeys
        /\ config' = [config EXCEPT !.secret_key = out.secret_key]
        /\ config_file' = out.dir.config_file
        /\ next_key' = IF out.drew THEN next_key + 1 ELSE next_key
        /\ users_file' = out.dir.users_file
        /\ file_state' = out.dir.file_state
        /\ res' = [NoResult EXCEPT !.op = "construct"]

\* The steps that call _load_users and _load_sessions and nothing else.
LoadUsersStep ==
    res' = [NoResult EXCEPT !.op = "load_users",
                            !.raised = LoadUsersCall.raised,
                            !.value = LoadUsersCall.value]

LoadSessionsStep ==
    res' = [NoResult EXCEPT !.op = "load_sessions",
                            !.raised = LoadSessionsCall(now).raised,
                            !.value = LoadSessionsCall(now).value]

\* create_user(email, name, password, role)
CreateUser(email, name, password, role) ==
    LET users == LoadUsers
        user_id == <<"uuid", next_uid + 1>>
    IN  IF EmailTaken(users, email)
        THEN /\ res' = [NoResult EXCEPT !.op = "create_user", !.email = email,
                                        !.password = password,
                                        !.error = EmailExistsError]
             /\ UNCHANGED <<users_file, file_state, next_uid>>
        ELSE /\ next_uid < MaxUsers
             /\ users_file' = WriteFile(users_file,
                    Put(users, user_id,
                        [user_id |-> user_id, email |-> email,
                         name |-> name, role |-> role,
                         last_login |-> <<>>, is_active |-> TRUE,
                         password_hash |-> HashPassword(password)]))
             /\ file_state' = [file_state EXCEPT !.users = WrittenState(@)]
             /\ next_uid' = next_uid + 1
             /\ res' = [NoResult EXCEPT !.op = "create_user", !.email = email,
                                        !.password = password, !.success = TRUE,
                                        !.user_id = user_id]

\* Mutant of LoginError: the active flag is checked before the password.
LoginErrorActiveFirst(users, matches, password) ==
    IF matches = {} THEN GenericError
    ELSE LET user_data == users[CHOOSE u \in matches : TRUE]
         IN  IF ~user_data.is_active THEN DisabledError
             ELSE IF HashPassword(password) # user_data.password_hash THEN GenericError
             ELSE ""

\* authenticate_user's three checks on the record found: "" when the login
\* goes through, the error message otherwise.
LoginError(users, matches, password) ==
    IF matches = {} THEN GenericError
    ELSE LET user_data == users[CHOOSE u \in matches : TRUE]
         IN  IF HashPassword(password) # user_data.password_hash THEN GenericError
             ELSE IF ~user_data.is_active THEN DisabledError
             ELSE ""

\* Mutant of TouchLogin: last_login is left as it was.
TouchLoginNever(user_data, t) == user_data

\* user_data['last_login'] = now.isoformat()
TouchLogin(user_data, t) == [user_data EXCEPT !.last_login = <<t>>]

\* authenticate_user(email, password).  user_data['user_id'] raises KeyError
\* on a record without that field, before anything is written; the token
\* drawn just before is lost and is not counted.
AuthenticateUser(email, password) ==
    LET users == LoadUsers
        matches == FindUsersByEmail(users, email)
        error == LoginError(users, matches, password)
        user_data == users[CHOOSE u \in matches : TRUE]
        session_id == next_token + 1
        expires_at == now + config.session_timeout_hours
        session == [session_id |-> session_id, user_id |-> user_data.user_id,
                    created_at |-> now, expires_at |-> expires_at,
                    last_active |-> now, is_active |-> TRUE]
        base == [NoResult EXCEPT !.op = "authenticate_user", !.email = email,
                                 !.password = password]
    IN  IF error # ""
        THEN /\ res' = [base EXCEPT !.error = error]
             /\ UNCHANGED <<users_file, sessions_file, file_state, next_token>>
        ELSE IF user_data.user_id = <<>>
        THEN /\ res' = [base EXCEPT !.raised = "KeyError"]
             /\ UNCHANGED <<users_file, sessions_file, file_state, next_token>>
        ELSE /\ next_token < MaxTokens
             /\ sessions_file' = WriteFile(sessions_file,
                    Put(LoadSessions(now), session_id, session))
             /\ users_file' = WriteFile(users_file,
                    Put(users, user_data.user_id, TouchLogin(user_data, now)))
             /\ file_state' = [users |-> WrittenState(file_state.users),
                              sessions |-> WrittenState(file_state.sessions)]
             /\ next_token' = next_token + 1
             /\ res' = [base EXCEPT !.success = TRUE,
                                    !.session_id = session_id,
                                    !.user_id = user_data.user_id,
                                    !.role = user_data.role]

\* validate_session(session_id) by a manager over the auth directory d at
\* time t: the directory afterwards and the result.  The expiry test sits in
\* a try whose except answers 'Invalid session data';
\* session_data['user_id'] and the fields of the returned user are read
\* outside it and raise KeyError when missing, after the refreshed record
\* has been saved.
ValidateSessionIn(d, session_id, t) ==
    LET sessions == CleanupExpiredSessions(
                        JsonLoad(d.file_state.sessions, d.sessions_file).value, t)
        base == [NoResult EXCEPT !.op = "validate_session", !.session_id = session_id]
    IN  IF session_id = 0
        THEN [dir |-> d, res |-> [base EXCEPT !.error = "No session ID provided"]]
        ELSE IF session_id \notin DOMAIN sessions
        THEN [dir |-> d, res |-> [base EXCEPT !.error = "Session not found"]]
        ELSE IF ~Parsable(sessions[session_id].expires_at)
        THEN [dir |-> d, res |-> [base EXCEPT !.error = "Invalid session data"]]
        ELSE IF t > sessions[session_id].expires_at
        THEN [dir |-> SaveSessionsIn(d, Remove(sessions, session_id)),
              res |-> [base EXCEPT !.error = "Session expired"]]
        ELSE LET session_data == [sessions[session_id] EXCEPT !.last_active = t]
                 users == JsonLoad(d.file_state.users, d.users_file).value
             IN  [dir |-> SaveSessionsIn(d, Put(sessions, session_id, session_data)),
                  res |->
                    IF session_data.user_id = <<>>
                    THEN [base EXCEPT !.raised = "KeyError"]
                    ELSE IF session_data.user_id \notin DOMAIN users
                            \/ ~users[session_data.user_id].is_active
                    THEN [base EXCEPT !.error = "User account not found or disabled"]
                    ELSE IF users[session_data.user_id].user_id = <<>>
                    THEN [base EXCEPT !.raised = "KeyError"]
                    ELSE [base EXCEPT !.success = TRUE,
                                      !.user_id = users[session_data.user_id].user_id,
                                      !.role = users[session_data.user_id].role]]

\* validate_session(session_id) by the application's manager.
ValidateSession(session_id) ==
    LET out == ValidateSessionIn(AppAuth, session_id, now)
    IN  /\ sessions_file' = out.dir.sessions_file
        /\ file_state' = out.dir.file_state
        /\ res' = out.res

\* Mutant of LogoutUser: success is reported whether or not the token was
\* found, and the file is written either way.
LogoutUserAlwaysSucceeds(session_id) ==
    LET sessions == LoadSessions(now)
        base == [NoResult EXCEPT !.op = "logout_user", !.session_id = session_id]
    IN  /\ sessions_file' = Remove(sessions, session_id)
        /\ file_state' = [file_state EXCEPT !.sessions = WrittenState(@)]
        /\ res' = [base EXCEPT !.success = TRUE]

\* Mutant of LogoutUser: the logout empties sessions.json.
LogoutUserDropsAll(session_id) ==
    LET sessions == LoadSessions(now)
        base == [NoResult EXCEPT !.op = "logout_user", !.session_id = session_id]
    IN  IF session_id \in DOMAIN sessions
        THEN /\ sessions_file' = EmptyMap
             /\ file_state' = [file_state EXCEPT !.sessions = WrittenState(@)]
             /\ res' = [base EXCEPT !.success = TRUE]
        ELSE /\ res' = [base EXCEPT !.error = "Session not found"]
             /\ UNCHANGED <<sessions_file, file_state>>

\* Mutant of LogoutUser: success is reported and the record is kept.
LogoutUserKeepsRecord(session_id) ==
    LET sessions == LoadSessions(now)
        base == [NoResult EXCEPT !.op = "logout_user", !.session_id = session_id]
    IN  IF session_id \in DOMAIN sessions
        THEN /\ sessions_file' = sessions
             /\ file_state' = [file_state EXCEPT !.sessions = WrittenState(@)]
             /\ res' = [base EXCEPT !.success = TRUE]
        ELSE /\ res' = [base EXCEPT !.error = "Session not found"]
             /\ UNCHANGED <<sessions_file, file_state>>

\* logout_user(session_id)
LogoutUser(session_id) ==
    LET sessions == LoadSessions(now)
        base == [NoResult EXCEPT !.op = "logout_user", !.session_id = session_id]
    IN  IF session_id \in DOMAIN sessions
        THEN /\ sessions_file' = WriteFile(sessions_file, Remove(sessions, session_id))
             /\ file_state' = [file_state EXCEPT !.sessions = WrittenState(@)]
             /\ res' = [base EXCEPT !.success = TRUE]
        ELSE /\ res' = [base EXCEPT !.error = "Session not found"]
             /\ UNCHANGED <<sessions_file, file_state>>

\* The sessions in S ordered by last_active, latest first (sorted(...,
\* reverse=True)); among equal keys one order is taken.
SortedByLastActive(S, sessions) ==
    CHOOSE q \in [1..Cardinality(S) -> S] :
        /\ \A i, j \in DOMAIN q : i # j => q[i] # q[j]
        /\ \A i, j \in DOMAIN q :
              i < j => sessions[q[i]].last_active >= sessions[q[j]].last_active

\* get_user_sessions(user_id).  The sort compares the last_active keys: with
\* two or more entries of which one has no last_active (None) it raises
\* TypeError.
GetUserSessions(user_id) ==
    LET sessions == LoadSessions(now)
        user_sessions == {s \in DOMAIN sessions : sessions[s].user_id = user_id}
        base == [NoResult EXCEPT !.op = "get_user_sessions", !.user_id = user_id]
    IN  IF /\ Cardinality(user_sessions) >= 2
           /\ \E s \in user_sessions : ~Parsable(sessions[s].last_active)
        THEN res' = [base EXCEPT !.raised = "TypeError"]
        ELSE res' = [base EXCEPT !.success = TRUE,
                                 !.value = SortedByLastActive(user_sessions, sessions)]

\* Mutant of GuestExpiresAt: the standard session timeout is used.
GuestExpiresAtStandard(t) == t + config.session_timeout_hours

\* guest_session's expiry for a session created at time t.
GuestExpiresAt(t) == t + GuestTimeoutHours

\* Mutant of GuestModeEnabled: the flag is not consulted.
GuestModeAlways == TRUE

\* self.config.get('enable_guest_mode', False)
GuestModeEnabled == config.enable_guest_mode

\* guest_session()
GuestSession ==
    LET guest_id == <<"guest", now>>
        session_id == next_token + 1
        session == [session_id |-> session_id, user_id |-> guest_id,
                    created_at |-> now, expires_at |-> GuestExpiresAt(now),
                    last_active |-> now, is_active |-> TRUE]
    IN  IF ~GuestModeEnabled
        THEN /\ res' = [NoResult EXCEPT !.op = "guest_session",
                                        !.error = "Guest mode is disabled"]
             /\ UNCHANGED <<sessions_file, file_state, next_token>>
        ELSE /\ next_token < MaxTokens
             /\ sessions_file' = WriteFile(sessions_file,
                    Put(LoadSessions(now), session_id, session))
             /\ file_state' = [file_state EXCEPT !.sessions = WrittenState(@)]
             /\ next_token' = next_token + 1
             /\ res' = [NoResult EXCEPT !.op = "guest_session", !.success = TRUE,
                                        !.session_id = session_id,
                                        !.user_id = guest_id, !.role = "viewer"]

\* role_hierarchy.get(role, default)
RoleHierarchyGet(role, default) ==
    CASE role = "viewer" -> 1
      [] role = "pm" -> 2
      [] role = "admin" -> 3
      [] OTHER -> default

\* Mutant of Insufficient: equal positions are turned down too.
InsufficientOrEqual(user_role, required_role) ==
    RoleHierarchyGet(user_role, 0) <= RoleHierarchyGet(required_role, 999)

\* require_role's test for answering 403.
Insufficient(user_role, required_role) ==
    RoleHierarchyGet(user_role, 0) < RoleHierarchyGet(required_role, 999)

\* A route wrapped in require_role(required_role), entered with whatever the
\* last call left in g: g.current_user is set when that call was a
\* validate_session that succeeded (require_auth).
RequireRole(required_role) ==
    LET base == [NoResult EXCEPT !.op = "require_role", !.required_role = required_role]
    IN  IF ~(res.op = "validate_session" /\ res.success)
        THEN res' = [base EXCEPT !.error = "Authentication required"]
        ELSE IF Insufficient(res.role, required_role)
        THEN res' = [base EXCEPT !.role = res.role, !.error = "Insufficient permissions"]
        ELSE res' = [base EXCEPT !.role = res.role, !.success = TRUE]

(* --------------------------- web application ---------------------------- *)

RECURSIVE StripLeft(_), StripRight(_)

\* str.lstrip(): leading blanks removed.
StripLeft(s) == IF s # <<>> /\ Head(s) = " " THEN StripLeft(Tail(s)) ELSE s

\* str.rstrip(): trailing blanks removed.
StripRight(s) ==
    IF s # <<>> /\ s[Len(s)] = " " THEN StripRight(SubSeq(s, 1, Len(s) - 1)) ELSE s

\* str.strip()
Strip(s) == StripRight(StripLeft(s))

\* Mutant of RegistrationAllowed: the flag is not consulted.
RegistrationAllowedAlways == TRUE

\* auth_manager.config.get('allow_registration', True)
RegistrationAllowed == config.allow_registration

\* POST /api/auth/register.  The flag is tested first; then the stripped
\* email and name and the password must all be non-empty; then create_user
\* is called with these three arguments and its result is the answer.
ApiRegister(email, name, password) ==
    IF ~RegistrationAllowed
    THEN /\ res' = [NoResult EXCEPT !.op = "api_register",
                                    !.error = RegistrationDisabledError]
         /\ UNCHANGED <<users_file, file_state, next_uid>>
    ELSE IF Strip(email) = <<>> \/ Strip(name) = <<>> \/ password = <<>>
    THEN /\ res' = [NoResult EXCEPT !.op = "api_register",
                                    !.error = RegisterFieldsError]
         /\ UNCHANGED <<users_file, file_state, next_uid>>
    ELSE CreateUser(Strip(email), Strip(name), password, "pm")

\* POST /api/auth/login.  The stripped email and the password must be
\* non-empty; then authenticate_user's result is the answer.
ApiLogin(email, password) ==
    IF Strip(email) = <<>> \/ password = <<>>
    THEN /\ res' = [NoResult EXCEPT !.op = "api_login", !.error = LoginFieldsError]
         /\ UNCHANGED <<users_file, sessions_file, file_state, next_token>>
    ELSE AuthenticateUser(Strip(email), password)

\* POST /api/auth/guest: guest_session's result is the answer.
ApiGuestLogin == GuestSession

\* require_auth around a protected route, for a request carrying the token
\* session_id (0 for none).  The decorator builds AuthenticationManager()
\* with working_dir ".", that is over ./auth of the process's working
\* directory, and asks it to validate the token; the route runs when the
\* answer is valid, and the answer's error is returned with 401 otherwise.
RequireAuth(session_id) ==
    IF session_id = 0
    THEN /\ res' = [NoResult EXCEPT !.op = "require_auth", !.error = AuthRequiredError]
         /\ UNCHANGED <<users_file, sessions_file, file_state, stored_config, cwd_auth>>
    ELSE LET built == ConstructIn(IF cwd = AppRoot THEN AppAuth ELSE cwd_auth)
             out == ValidateSessionIn(built.dir, session_id, now)
         IN  /\ res' = [out.res EXCEPT !.op = "require_auth"]
             /\ next_key' = IF built.drew THEN next_key + 1 ELSE next_key
             /\ IF cwd = AppRoot
                THEN /\ users_file' = out.dir.users_file
                     /\ sessions_file' = out.dir.sessions_file
                     /\ file_state' = out.dir.file_state
                     /\ config_file' = out.dir.config_file
                     /\ UNCHANGED cwd_auth
                ELSE /\ cwd_auth' = out.dir
                     /\ UNCHANGED <<users_file, sessions_file, file_state, config_file>>

(* ------------------- calls interleaved at load and save ----------------- *)

\* The record create_user builds for the call in thread p.
NewUser(p) ==
    [user_id |-> procs[p].user_id, email |-> procs[p].email,
     name |-> "Alice", role |-> "pm",
     last_login |-> <<>>, is_active |-> TRUE,
     password_hash |-> HashPassword(procs[p].password)]

\* The record authenticate_user builds for the call in thread p.
NewSession(p) ==
    [session_id |-> procs[p].session_id, user_id |-> procs[p].user_id,
     created_at |-> now, expires_at |-> now + config.session_timeout_hours,
     last_active |-> now, is_active |-> TRUE]

\* create_user up to its _load_users: the collision scan fails the call, or
\* the identifier is drawn and the record awaits _save_users.
CreateUserLoad(p, email, password) ==
    LET users == LoadUsers
        call == [IdleCall EXCEPT !.op = "create_user", !.email = email,
                                 !.password = password]
    IN  /\ procs[p].pc = "idle"
        /\ IF EmailTaken(users, email)
           THEN /\ procs' = [procs EXCEPT ![p] =
                               [call EXCEPT !.pc = "done", !.error = EmailExistsError]]
                /\ UNCHANGED next_uid
           ELSE /\ procs' = [procs EXCEPT ![p] =
                               [call EXCEPT !.pc = "create_save", !.users = users,
                                            !.user_id = <<"uuid", next_uid + 1>>]]
                /\ next_uid' = next_uid + 1
        /\ UNCHANGED <<users_file, sessions_file, file_state, next_token>>

\* create_user from users[user_id] = ... to its return.
CreateUserSave(p) ==
    /\ procs[p].pc = "create_save"
    /\ users_file' = WriteFile(users_file,
                               Put(procs[p].users, procs[p].user_id, NewUser(p)))
    /\ file_state' = [file_state EXCEPT !.users = WrittenState(@)]
    /\ procs' = [procs EXCEPT ![p].pc = "done", ![p].success = TRUE]
    /\ UNCHANGED <<sessions_file, next_uid, next_token>>

\* authenticate_user up to the token: _load_users, the three checks, the
\* token drawn.
LoginLoadUsers(p, email, password) ==
    LET users == LoadUsers
        matches == FindUsersByEmail(users, email)
        error == LoginError(users, matches, password)
        user_data == users[CHOOSE u \in matches : TRUE]
        call == [IdleCall EXCEPT !.op = "authenticate_user", !.email = email,
                                 !.password = password]
    IN  /\ procs[p].pc = "idle"
        /\ IF error # ""
           THEN /\ procs' = [procs EXCEPT ![p] =
                               [call EXCEPT !.pc = "done", !.error = error]]
                /\ UNCHANGED next_token
           ELSE IF user_data.user_id = <<>>
           THEN /\ procs' = [procs EXCEPT ![p] =
                               [call EXCEPT !.pc = "done", !.error = "KeyError"]]
                /\ UNCHANGED next_token
           ELSE /\ procs' = [procs EXCEPT ![p] =
                               [call EXCEPT !.pc = "login_load_sessions",
                                            !.users = users,
                                            !.user_id = user_data.user_id,
                                            !.session_id = next_token + 1]]
                /\ next_token' = next_token + 1
        /\ UNCHANGED <<users_file, sessions_file, file_state, next_uid>>

\* sessions = self._load_sessions()
LoginLoadSessions(p) ==
    /\ procs[p].pc = "login_load_sessions"
    /\ procs' = [procs EXCEPT ![p].pc = "login_save_sessions",
                              ![p].sessions = LoadSessions(now)]
    /\ UNCHANGED <<users_file, sessions_file, file_state, next_uid, next_token>>

\* sessions[session_id] = ...; self._save_sessions(sessions)
LoginSaveSessions(p) ==
    /\ procs[p].pc = "login_save_sessions"
    /\ sessions_file' = WriteFile(sessions_file,
                                  Put(procs[p].sessions, procs[p].session_id,
                                      NewSession(p)))
    /\ file_state' = [file_state EXCEPT !.sessions = WrittenState(@)]
    /\ procs' = [procs EXCEPT ![p].pc = "login_save_users"]
    /\ UNCHANGED <<users_file, next_uid, next_token>>

\* user_data['last_login'] = ...; self._save_users(users); return
LoginSaveUsers(p) ==
    LET users == procs[p].users
        user_id == procs[p].user_id
    IN  /\ procs[p].pc = "login_save_users"
        /\ users_file' = WriteFile(users_file,
                                   Put(users, user_id, TouchLogin(users[user_id], now)))
        /\ file_state' = [file_state EXCEPT !.users = WrittenState(@)]
        /\ procs' = [procs EXCEPT ![p].pc = "done", ![p].success = TRUE]
        /\ UNCHANGED <<sessions_file, next_uid, next_token>>

\* logout_user up to its test: _load_sessions and the lookup.
LogoutLoad(p, session_id) ==
    LET sessions == LoadSessions(now)
        call == [IdleCall EXCEPT !.op = "logout_user", !.session_id = session_id]
    IN  /\ procs[p].pc = "idle"
        /\ IF session_id \in DOMAIN sessions
           THEN procs' = [procs EXCEPT ![p] =
                             [call EXCEPT !.pc = "logout_save", !.sessions = sessions]]
           ELSE procs' = [procs EXCEPT ![p] =
                             [call EXCEPT !.pc = "done", !.error = "Session not found"]]
        /\ UNCHANGED <<users_file, sessions_file, file_state, next_uid, next_token>>

\* del sessions[session_id]; self._save_sessions(sessions); return True
LogoutSave(p) ==
    /\ procs[p].pc = "logout_save"
    /\ sessions_file' = WriteFile(sessions_file,
                                  Remove(procs[p].sessions, procs[p].session_id))
    /\ file_state' = [file_state EXCEPT !.sessions = WrittenState(@)]
    /\ procs' = [procs EXCEPT ![p].pc = "done", ![p].success = TRUE]
    /\ UNCHANGED <<users_file, next_uid, next_token>>

(* ------------------------------ installer ------------------------------- *)

\* tool_map = {tool["name"]: tool for tool in tools}: the last entry of each
\* name.
ToolMap(list) ==
    [n \in {list[i].name : i \in DOMAIN list} |->
        list[CHOOSE i \in DOMAIN list :
                /\ list[i].name = n
                /\ \A j \in DOMAIN list : list[j].name = n => j <= i]]

\* [t["name"] for t in resolved]
ResolvedNames(resolved) == {resolved[i].name : i \in DOMAIN resolved}

\* "tool_name in resolved": a str compared with the dicts of the list is
\* equal to none of them.
NameInList(tool_name, resolved) == FALSE

\* Mutant of AppendOnce: the tool is appended whether or not its name is in
\* the list.
AppendAlways(resolved, tool) == Append(resolved, tool)

\* if tool_name not in [t["name"] for t in resolved]: resolved.append(tool)
AppendOnce(resolved, tool) ==
    IF tool.name \in ResolvedNames(resolved) THEN resolved ELSE Append(resolved, tool)

\* Mutant of Leave: the name stays in resolving.
LeaveNever(resolving, tool_name) == resolving

\* resolving.remove(tool_name)
Leave(resolving, tool_name) == resolving \ {tool_name}

RECURSIVE ResolveTool(_, _, _), ResolveEach(_, _, _)

\* resolve_tool(tool_name) on the closure state st = (resolved, resolving);
\* st.raised names the tool of the InstallationError once it is raised, and
\* nothing runs after that.
ResolveTool(tool_map, tool_name, st) ==
    IF st.raised # "" \/ NameInList(tool_name, st.resolved) THEN st
    ELSE IF tool_name \in st.resolving THEN [st EXCEPT !.raised = tool_name]
    ELSE LET tool == tool_map[tool_name]
             entered == [st EXCEPT !.resolving = @ \cup {tool_name}]
             after == IF tool_name \in DOMAIN tool_map
                      THEN ResolveEach(tool_map, tool.depends_on, entered)
                      ELSE entered
         IN  IF after.raised # "" THEN after
             ELSE [after EXCEPT
                     !.resolved = IF tool_name \in DOMAIN tool_map
                                  THEN AppendOnce(@, tool) ELSE @,
                     !.resolving = Leave(@, tool_name)]

\* for dep in ...: if dep in tool_map: resolve_tool(dep)
ResolveEach(tool_map, names, st) ==
    IF names = <<>> THEN st
    ELSE ResolveEach(tool_map, Tail(names),
                     IF Head(names) \in DOMAIN tool_map
                     THEN ResolveTool(tool_map, Head(names), st)
                     ELSE st)

\* _resolve_dependencies(tools): resolve_tool on each entry's name in list
\* order.
ResolveDependencies(list) ==
    ResolveEach(ToolMap(list), [i \in DOMAIN list |-> list[i].name],
                [resolved |-> <<>>, resolving |-> {}, raised |-> ""])

\* The step that calls _resolve_dependencies(tools).
ResolveStep ==
    LET st == ResolveDependencies(tools)
    IN  /\ ~resolution.done
        /\ resolution' = [done |-> TRUE, raised |-> st.raised,
                          resolved |-> IF st.raised = "" THEN st.resolved ELSE <<>>]
        /\ UNCHANGED tools

(* ----------------------------- environment ------------------------------ *)

\* The wall clock advances by an hour between two calls.
Tick ==
    /\ now < MaxTime
    /\ now' = now + 1
    /\ res' = [NoResult EXCEPT !.op = "tick"]
    /\ prev' = PrevAfter
    /\ UNCHANGED <<rest, config, file_state, users_file, sessions_file, next_uid, next_token,
                   admin_edits>>

\* An administrator disables an account by setting is_active to false in
\* users.json (no operation of the manager does it).
DeactivateUser(u) ==
    /\ admin_edits < MaxAdminEdits
    /\ admin_edits' = admin_edits + 1
    /\ u \in DOMAIN users_file
    /\ users_file[u].is_active
    /\ users_file' = [users_file EXCEPT ![u].is_active = FALSE]
    /\ res' = [NoResult EXCEPT !.op = "deactivate_user"]
    /\ prev' = PrevAfter
    /\ UNCHANGED <<rest, config, file_state, sessions_file, now, next_uid, next_token>>

\* An administrator revokes a session by setting is_active to false in
\* sessions.json (no operation of the manager does it).
DeactivateSession(s) ==
    /\ admin_edits < MaxAdminEdits
    /\ admin_edits' = admin_edits + 1
    /\ s \in DOMAIN sessions_file
    /\ sessions_file[s].is_active
    /\ sessions_file' = [sessions_file EXCEPT ![s].is_active = FALSE]
    /\ res' = [NoResult EXCEPT !.op = "deactivate_session"]
    /\ prev' = PrevAfter
    /\ UNCHANGED <<rest, config, file_state, users_file, now, next_uid, next_token>>

(* --------------------------- specification ------------------------------ *)

DoCreateUser ==
    /\ \E email \in EmailInputs, name \in NameInputs,
          password \in PasswordInputs, role \in RoleInputs :
          CreateUser(email, name, password, role)
    /\ prev' = PrevAfter
    /\ UNCHANGED <<rest, config, sessions_file, now, next_token, admin_edits>>

DoAuthenticateUser ==
    /\ \E email \in EmailInputs, password \in PasswordInputs :
          AuthenticateUser(email, password)
    /\ prev' = PrevAfter
    /\ UNCHANGED <<rest, config, now, next_uid, admin_edits>>

DoValidateSession ==
    /\ \E session_id \in TokenInputs : ValidateSession(session_id)
    /\ prev' = PrevAfter
    /\ UNCHANGED <<rest, config, users_file, now, next_uid, next_token, admin_edits>>

DoLogoutUser ==
    /\ \E session_id \in TokenInputs : LogoutUser(session_id)
    /\ prev' = PrevAfter
    /\ UNCHANGED <<rest, config, users_file, now, next_uid, next_token, admin_edits>>

DoGuestSession ==
    /\ GuestSession
    /\ prev' = PrevAfter
    /\ UNCHANGED <<rest, config, users_file, now, next_uid, admin_edits>>

DoDeactivateUser == \E u \in DOMAIN users_file : DeactivateUser(u)

DoDeactivateSession == \E s \in DOMAIN sessions_file : DeactivateSession(s)

Next ==
    \/ DoCreateUser
    \/ DoAuthenticateUser
    \/ DoValidateSession
    \/ DoLogoutUser
    \/ DoGuestSession
    \/ Tick
    \/ DoDeactivateUser
    \/ DoDeactivateSession

Spec == Init /\ [][Next]_vars

\* The calls made on a store that earlier runs have left behind.
DoConstruct ==
    /\ Construct
    /\ prev' = PrevAfter
    /\ UNCHANGED <<procs, installer, web_dirs, writable, sessions_file, now, next_uid,
                   next_token, admin_edits>>

DoLoadUsers ==
    /\ LoadUsersStep
    /\ prev' = PrevAfter
    /\ UNCHANGED <<rest, config, file_state, users_file, sessions_file, now, next_uid,
                   next_token, admin_edits>>

DoLoadSessions ==
    /\ LoadSessionsStep
    /\ prev' = PrevAfter
    /\ UNCHANGED <<rest, config, file_state, users_file, sessions_file, now, next_uid,
                   next_token, admin_edits>>

DoCreateStored ==
    /\ \E email \in StoredEmailInputs, name \in NameInputs, role \in RoleInputs :
          CreateUser(email, name, <<"x">>, role)
    /\ prev' = PrevAfter
    /\ UNCHANGED <<rest, config, sessions_file, now, next_token, admin_edits>>

DoLoginStored ==
    /\ \E email \in StoredEmailInputs, password \in PasswordInputs :
          AuthenticateUser(email, password)
    /\ prev' = PrevAfter
    /\ UNCHANGED <<rest, config, now, next_uid, admin_edits>>

DoValidateStored ==
    /\ \E session_id \in StoredTokens \cup TokenInputs : ValidateSession(session_id)
    /\ prev' = PrevAfter
    /\ UNCHANGED <<rest, config, users_file, now, next_uid, next_token, admin_edits>>

DoLogoutStored ==
    /\ \E session_id \in StoredTokens \cup TokenInputs : LogoutUser(session_id)
    /\ prev' = PrevAfter
    /\ UNCHANGED <<rest, config, users_file, now, next_uid, next_token, admin_edits>>

DoGetUserSessions ==
    /\ GetUserSessions(StoredUserId)
    /\ prev' = PrevAfter
    /\ UNCHANGED <<rest, config, file_state, users_file, sessions_file, now, next_uid,
                   next_token, admin_edits>>

DoRequireRole ==
    /\ \E required_role \in RequiredRoleInputs : RequireRole(required_role)
    /\ prev' = PrevAfter
    /\ UNCHANGED <<rest, config, file_state, users_file, sessions_file, now, next_uid,
                   next_token, admin_edits>>

NextStore ==
    \/ DoConstruct
    \/ DoLoadUsers
    \/ DoLoadSessions
    \/ DoCreateStored
    \/ DoLoginStored
    \/ DoValidateStored
    \/ DoLogoutStored
    \/ DoGetUserSessions
    \/ DoGuestSession
    \/ DoRequireRole
    \/ Tick

SpecStore == InitStore /\ [][NextStore]_vars

\* The web application after start-up on a fresh directory: the module-level
\* manager of app.py has loaded a configuration in which a stored
\* auth_config.json may close registration and may name any default role,
\* and has provisioned the default account.  The process was started from
\* the application's directory or from another one, which has no auth
\* directory yet.
InitWeb ==
    /\ config \in [session_timeout_hours : {1},
                   enable_guest_mode : {TRUE},
                   allow_registration : BOOLEAN,
                   default_role : Roles,
                   secret_key : SecretKeys]
    /\ file_state = [users |-> "json", sessions |-> "absent"]
    /\ users_file = Put(EmptyMap, DefaultUserId, DefaultUser)
    /\ sessions_file = EmptyMap
    /\ now = 0
    /\ next_uid = 0
    /\ next_token = 0
    /\ res = NoResult
    /\ prev = NoResult
    /\ admin_edits = 0
    /\ procs = NoCalls
    /\ cwd \in {AppRoot, Elsewhere}
    /\ cwd_auth = EmptyDir
    /\ config_file = [state |-> "json", secret_key |-> config.secret_key]
    /\ next_key = 1
    /\ writable = TRUE
    /\ tools = <<>>
    /\ resolution = NotResolved

DoApiRegister ==
    /\ \E email \in WebEmailInputs, name \in WebNameInputs, password \in WebPasswordInputs :
          ApiRegister(email, name, password)
    /\ prev' = PrevAfter
    /\ UNCHANGED <<rest, config, sessions_file, now, next_token, admin_edits>>

DoApiLogin ==
    /\ \E email \in WebEmailInputs, password \in WebPasswordInputs :
          ApiLogin(email, password)
    /\ prev' = PrevAfter
    /\ UNCHANGED <<rest, config, now, next_uid, admin_edits>>

DoApiGuestLogin ==
    /\ ApiGuestLogin
    /\ prev' = PrevAfter
    /\ UNCHANGED <<rest, config, users_file, now, next_uid, admin_edits>>

DoProtectedRoute ==
    /\ \E session_id \in TokenInputs : RequireAuth(session_id)
    /\ prev' = PrevAfter
    /\ UNCHANGED <<config, now, next_uid, next_token, admin_edits, procs, installer,
                   cwd, writable>>

NextWeb ==
    \/ DoApiRegister
    \/ DoApiLogin
    \/ DoApiGuestLogin
    \/ DoProtectedRoute
    \/ Tick

SpecWeb == InitWeb /\ [][NextWeb]_vars

\* Two request threads over a directory in use: the default account and
\* possibly one live session are stored, and no call has started.
InitRace ==
    /\ config \in [session_timeout_hours : {1},
                   enable_guest_mode : {TRUE},
                   allow_registration : {TRUE},
                   default_role : {"pm"},
                   secret_key : SecretKeys]
    /\ users_file = Put(EmptyMap, DefaultUserId, DefaultUser)
    /\ sessions_file \in {EmptyMap} \cup
                         {Put(EmptyMap, s, StoredSession(s)) : s \in StoredTokens}
    /\ file_state = [users |-> "json",
                     sessions |-> IF sessions_file = EmptyMap THEN "absent" ELSE "json"]
    /\ now = 0
    /\ next_uid = 0
    /\ next_token = 0
    /\ res = NoResult
    /\ prev = NoResult
    /\ admin_edits = 0
    /\ procs = NoCalls
    /\ cwd = AppRoot
    /\ cwd_auth = EmptyDir
    /\ config_file = [state |-> "json", secret_key |-> config.secret_key]
    /\ next_key = 1
    /\ writable = TRUE
    /\ tools = <<>>
    /\ resolution = NotResolved

DoCreateUserLoad ==
    /\ \E p \in Threads, email \in {<<"a">>, <<"A">>}, password \in {<<"x">>} :
          CreateUserLoad(p, email, password)
    /\ UNCHANGED <<config, now, res, prev, admin_edits, installer, web_dirs,
                   stored_config, writable>>

DoCreateUserSave ==
    /\ \E p \in Threads : CreateUserSave(p)
    /\ UNCHANGED <<config, now, res, prev, admin_edits, installer, web_dirs,
                   stored_config, writable>>

DoLoginLoadUsers ==
    /\ \E p \in Threads, password \in {DefaultPassword, <<"x">>} :
          LoginLoadUsers(p, DefaultEmail, password)
    /\ UNCHANGED <<config, now, res, prev, admin_edits, installer, web_dirs,
                   stored_config, writable>>

DoLoginLoadSessions ==
    /\ \E p \in Threads : LoginLoadSessions(p)
    /\ UNCHANGED <<config, now, res, prev, admin_edits, installer, web_dirs,
                   stored_config, writable>>

DoLoginSaveSessions ==
    /\ \E p \in Threads : LoginSaveSessions(p)
    /\ UNCHANGED <<config, now, res, prev, admin_edits, installer, web_dirs,
                   stored_config, writable>>

DoLoginSaveUsers ==
    /\ \E p \in Threads : LoginSaveUsers(p)
    /\ UNCHANGED <<config, now, res, prev, admin_edits, installer, web_dirs,
                   stored_config, writable>>

DoLogoutLoad ==
    /\ \E p \in Threads, session_id \in StoredTokens \cup (1..NumThreads) :
          LogoutLoad(p, session_id)
    /\ UNCHANGED <<config, now, res, prev, admin_edits, installer, web_dirs,
                   stored_config, writable>>

DoLogoutSave ==
    /\ \E p \in Threads : LogoutSave(p)
    /\ UNCHANGED <<config, now, res, prev, admin_edits, installer, web_dirs,
                   stored_config, writable>>

NextRace ==
    \/ DoCreateUserLoad
    \/ DoCreateUserSave
    \/ DoLoginLoadUsers
    \/ DoLoginLoadSessions
    \/ DoLoginSaveSessions
    \/ DoLoginSaveUsers
    \/ DoLogoutLoad
    \/ DoLogoutSave

SpecRace == InitRace /\ [][NextRace]_vars

\* The installer with a tool list of up to MaxTools entries; entries of one
\* name carry the same depends_on list.
InitInstaller ==
    /\ \E n \in 0..MaxTools :
         \E names \in [1..n -> ToolNames], depends_on \in [ToolNames -> DependsInputs] :
            tools = [i \in 1..n |-> [name |-> names[i],
                                      depends_on |-> depends_on[names[i]]]]
    /\ resolution = NotResolved
    /\ config \in [session_timeout_hours : {1},
                   enable_guest_mode : {TRUE},
                   allow_registration : {TRUE},
                   default_role : {"pm"},
                   secret_key : SecretKeys]
    /\ file_state = [users |-> "absent", sessions |-> "absent"]
    /\ users_file = EmptyMap
    /\ sessions_file = EmptyMap
    /\ now = 0
    /\ next_uid = 0
    /\ next_token = 0
    /\ res = NoResult
    /\ prev = NoResult
    /\ admin_edits = 0
    /\ procs = NoCalls
    /\ cwd = AppRoot
    /\ cwd_auth = EmptyDir
    /\ config_file = [state |-> "json", secret_key |-> config.secret_key]
    /\ next_key = 1
    /\ writable = TRUE

DoResolveDependencies ==
    /\ ResolveStep
    /\ UNCHANGED <<config, file_state, users_file, sessions_file, now, next_uid,
                   next_token, res, prev, admin_edits, procs, web_dirs,
                   stored_config, writable>>

NextInstaller ==
    \/ DoResolveDependencies

SpecInstaller == InitInstaller /\ [][NextInstaller]_vars

\* A manager over a directory in use, holding the default account and
\* possibly one more, whose files can be written or, say after a change of
\* permissions, cannot.
InitDisk ==
    /\ config \in [session_timeout_hours : {1},
                   enable_guest_mode : {TRUE},
                   allow_registration : {TRUE},
                   default_role : {"pm"},
                   secret_key : SecretKeys]
    /\ file_state = [users |-> "json", sessions |-> "absent"]
    /\ users_file \in {Put(EmptyMap, DefaultUserId, DefaultUser),
                       Put(Put(EmptyMap, DefaultUserId, DefaultUser),
                           StoredUserId, StoredUser)}
    /\ sessions_file = EmptyMap
    /\ now = 0
    /\ next_uid = 0
    /\ next_token = 0
    /\ res = NoResult
    /\ prev = NoResult
    /\ admin_edits = 0
    /\ procs = NoCalls
    /\ cwd = AppRoot
    /\ cwd_auth = EmptyDir
    /\ config_file = [state |-> "json", secret_key |-> config.secret_key]
    /\ next_key = 1
    /\ writable \in BOOLEAN
    /\ tools = <<>>
    /\ resolution = NotResolved

NextDisk ==
    \/ DoCreateStored
    \/ DoLoginStored
    \/ DoGuestSession
    \/ DoValidateStored
    \/ DoLogoutStored
    \/ Tick

SpecDisk == InitDisk /\ [][NextDisk]_vars

\* A first manager has been constructed over a directory whose
\* auth_config.json it wrote itself, or holds no secret_key entry, or cannot
\* be parsed, or is absent and cannot be created.  Its configuration has
\* the first key drawn, and it has provisioned the default account where
\* the directory can be written.
InitInstances ==
    /\ config \in [session_timeout_hours : {1},
                   enable_guest_mode : {TRUE},
                   allow_registration : {TRUE},
                   default_role : {"pm"},
                   secret_key : {SecretKey(1)}]
    /\ next_key = 1
    /\ \E state \in {"written", "no_key", "unparsable", "unwritable"} :
          /\ config_file =
                CASE state = "written" -> [state |-> "json", secret_key |-> SecretKey(1)]
                  [] state = "no_key" -> [state |-> "json", secret_key |-> <<>>]
                  [] state = "unparsable" -> [state |-> "unparsable", secret_key |-> <<>>]
                  [] state = "unwritable" -> [state |-> "absent", secret_key |-> <<>>]
          /\ writable = (state # "unwritable")
    /\ file_state = [users |-> IF writable THEN "json" ELSE "absent",
                     sessions |-> "absent"]
    /\ users_file = IF writable THEN Put(EmptyMap, DefaultUserId, DefaultUser)
                    ELSE EmptyMap
    /\ sessions_file = EmptyMap
    /\ now = 0
    /\ next_uid = 0
    /\ next_token = 0
    /\ res = NoResult
    /\ prev = NoResult
    /\ admin_edits = 0
    /\ procs = NoCalls
    /\ cwd = AppRoot
    /\ cwd_auth = EmptyDir
    /\ tools = <<>>
    /\ resolution = NotResolved

NextInstances ==
    \/ DoConstruct
    \/ DoCreateStored
    \/ DoLoginStored
    \/ DoValidateStored
    \/ DoLogoutStored

SpecInstances == InitInstances /\ [][NextInstances]_vars

(* ------------------------------- claims --------------------------------- *)

\* C1: no two stored user records, active or inactive and the default
\* account included, have emails that are equal once lower-cased.
C1_EmailUnique ==
    \A u1, u2 \in DOMAIN users_file :
        u1 # u2 => Lower(users_file[u1].email) # Lower(users_file[u2].email)

\* A second account exists next to the default one and a create_user has
\* just been turned down.
C1_Witness ==
    /\ Cardinality(DOMAIN users_file) >= 2
    /\ res.op = "create_user"
    /\ ~res.success

\* C2: create_user with an email that differs at most in letter case from
\* the email of a stored record fails and leaves users.json and
\* sessions.json as they were.
C2_CollisionRejected ==
    [][(/\ res'.op = "create_user"
        /\ \E u \in DOMAIN users_file :
               Lower(users_file[u].email) = Lower(res'.email))
       => (/\ ~res'.success
           /\ users_file' = users_file
           /\ sessions_file' = sessions_file)]_vars

\* A create_user was turned down for an email that is written differently
\* from the stored one it collides with.
C2_Witness ==
    /\ res.op = "create_user"
    /\ ~res.success
    /\ \E u \in DOMAIN users_file :
           /\ users_file[u].email # res.email
           /\ Lower(users_file[u].email) = Lower(res.email)

\* C3: directly after a successful create_user(email, name, password),
\* authenticate_user(email, p) succeeds exactly when p is that password.
C3_PasswordRoundTrip ==
    [][(/\ res.op = "create_user"
        /\ res.success
        /\ res'.op = "authenticate_user"
        /\ res'.email = res.email)
       => (res'.success <=> res'.password = res.password)]_vars

\* A login with another password, directly after the account was created,
\* was turned down.
C3_Witness ==
    /\ prev.op = "create_user"
    /\ res.op = "authenticate_user"
    /\ res.email = prev.email
    /\ res.password # prev.password
    /\ ~res.success

\* C4: validate_session on a stored session returns valid exactly when the
\* session's active flag is true, the current time is strictly before its
\* expiry and its owning user record exists and is active; at the expiry
\* instant itself it is not valid.
C4_SessionValidity ==
    [][(/\ res'.op = "validate_session"
        /\ res'.session_id \in DOMAIN sessions_file)
       => LET s == sessions_file[res'.session_id]
          IN  res'.success <=>
                  (/\ s.is_active
                   /\ now < s.expires_at
                   /\ s.user_id \in DOMAIN users_file
                   /\ users_file[s.user_id].is_active)]_vars

\* A session of an active user, itself active, was validated at exactly its
\* expiry instant and turned down.
C4_Witness ==
    /\ res.op = "validate_session"
    /\ ~res.success
    /\ res.session_id \in DOMAIN sessions_file
    /\ LET s == sessions_file[res.session_id]
       IN  /\ s.expires_at = now
           /\ s.is_active
           /\ s.user_id \in DOMAIN users_file
           /\ users_file[s.user_id].is_active

\* C5: a stored session validated before its expiry succeeds (its owner
\* being an active user), and validated at or after its expiry it fails
\* with the reason 'Session expired' and its record is deleted from
\* sessions.json.
C5_ExpiredReported ==
    [][(/\ res'.op = "validate_session"
        /\ res'.session_id \in DOMAIN sessions_file
        /\ sessions_file[res'.session_id].is_active)
       => LET s == sessions_file[res'.session_id]
          IN  /\ (/\ now < s.expires_at
                  /\ s.user_id \in DOMAIN users_file
                  /\ users_file[s.user_id].is_active) => res'.success
              /\ now >= s.expires_at
                    => /\ res'.error = "Session expired"
                       /\ res'.session_id \notin DOMAIN sessions_file']_vars

\* C6: a session created by guest_session lives for exactly one quarter of
\* the configured session_timeout_hours.
C6_GuestQuarter ==
    (res.op = "guest_session" /\ res.success)
    => LET s == sessions_file[res.session_id]
       IN  4 * (s.expires_at - s.created_at) = config.session_timeout_hours

\* C6, amended: a session created by guest_session lives for exactly two
\* hours, whatever session_timeout_hours is configured.
C6_GuestTwoHours ==
    (res.op = "guest_session" /\ res.success)
    => LET s == sessions_file[res.session_id]
       IN  s.expires_at - s.created_at = 2

\* A guest session was opened under a session timeout no quarter of which is
\* two hours.
C6_Witness ==
    /\ res.op = "guest_session"
    /\ res.success
    /\ res.session_id \in DOMAIN sessions_file
    /\ config.session_timeout_hours # 8

\* C7: validate_session on the token of a guest session, before its expiry,
\* returns valid with role viewer.
C7_GuestUsable ==
    [][(/\ res'.op = "validate_session"
        /\ res'.session_id \in DOMAIN sessions_file
        /\ LET s == sessions_file[res'.session_id]
           IN  /\ s.user_id[1] = "guest"
               /\ s.is_active
               /\ now < s.expires_at)
       => (res'.success /\ res'.role = "viewer")]_vars

\* C8: every failed authenticate_user returns the one generic message.
C8_OneMessage ==
    (res.op = "authenticate_user" /\ ~res.success)
    => res.error = "Invalid email or password"

\* C8, amended: a failed authenticate_user returns the generic message for
\* an unknown email and for a wrong password, on a disabled account too; a
\* disabled account given its own password is told 'User account is
\* disabled'.
C8_MessageByCase ==
    (res.op = "authenticate_user" /\ ~res.success)
    => LET found == {u \in DOMAIN users_file :
                        Lower(users_file[u].email) = Lower(res.email)}
           disabled == \E u \in found :
                           /\ users_file[u].password_hash = res.password \o config.secret_key
                           /\ ~users_file[u].is_active
       IN  res.error = IF disabled THEN "User account is disabled"
                       ELSE "Invalid email or password"

\* A login on a disabled account with a wrong password got the generic
\* message.
C8_Witness ==
    /\ res.op = "authenticate_user"
    /\ ~res.success
    /\ res.error = "Invalid email or password"
    /\ \E u \in DOMAIN users_file :
           /\ Lower(users_file[u].email) = Lower(res.email)
           /\ ~users_file[u].is_active
           /\ users_file[u].password_hash # res.password \o config.secret_key

\* An issued token whose record is missing from file, flagged inactive or
\* past its expiry at time t.
C9_Gone(file, t, issued, sid) ==
    /\ sid <= issued
    /\ \/ sid \notin DOMAIN file
       \/ ~file[sid].is_active
       \/ file[sid].expires_at <= t

C10_LoginBindsUser ==
    [][(/\ prev.op = "create_user"
        /\ res.op = "authenticate_user"
        /\ Lower(res.email) = Lower(prev.email)
        /\ res.password = prev.password)
       => /\ res.success
          /\ res.session_id # 0
          /\ (res'.op = "validate_session" /\ res'.session_id = res.session_id)
                => (res'.success /\ res'.user_id = prev.user_id)]_vars

\* A login under another spelling of the account's email went through and
\* its token was validated directly afterwards.
C10_Witness ==
    /\ prev.op = "authenticate_user"
    /\ res.op = "validate_session"
    /\ res.session_id = prev.session_id
    /\ res.success
    /\ res.user_id = prev.user_id
    /\ res.user_id # DefaultUserId
    /\ users_file[res.user_id].email # prev.email
    /\ users_file[res.user_id].last_login = <<now>>

\* C11 as stated: a validate_session that directly follows a successful
\* logout_user of the same token answers 'Session not found', and the logout
\* leaves every other record of sessions.json as it was.
C11_OthersUntouched ==
    [][/\ (/\ res.op = "logout_user"
           /\ res.success
           /\ res'.op = "validate_session"
           /\ res'.session_id = res.session_id)
          => (~res'.success /\ res'.error = "Session not found")
       /\ (res'.op = "logout_user" /\ res'.success)
          => \A s \in (DOMAIN sessions_file) \ {res'.session_id} :
                /\ s \in DOMAIN sessions_file'
                /\ sessions_file'[s] = sessions_file[s]]_vars

\* C11: a validate_session that directly follows a successful logout_user of
\* the same token answers 'Session not found'; the logout removes the
\* token's record, leaves every other record that is unexpired, active and
\* well-formed as it was, and adds none (the other records, which no load
\* returns any more, are dropped by the logout's save).
C11_LiveOthersUntouched ==
    [][/\ (/\ res.op = "logout_user"
           /\ res.success
           /\ res'.op = "validate_session"
           /\ res'.session_id = res.session_id)
          => (~res'.success /\ res'.error = "Session not found")
       /\ (res'.op = "logout_user" /\ res'.success)
          => /\ res'.session_id \in DOMAIN sessions_file
             /\ res'.session_id \notin DOMAIN sessions_file'
             /\ (DOMAIN sessions_file') \subseteq (DOMAIN sessions_file)
             /\ \A s \in (DOMAIN sessions_file) \ {res'.session_id} :
                   (/\ Parsable(sessions_file[s].expires_at)
                    /\ sessions_file[s].expires_at > now
                    /\ sessions_file[s].is_active)
                   => /\ s \in DOMAIN sessions_file'
                      /\ sessions_file'[s] = sessions_file[s]]_vars

\* A session was logged out, the validation of its token that followed was
\* answered 'Session not found', and another session is still stored.
C11_Witness ==
    /\ prev.op = "logout_user"
    /\ res.op = "validate_session"
    /\ res.session_id = prev.session_id
    /\ res.error = "Session not found"
    /\ sessions_file # EmptyMap

\* C12: of two logout_user calls in a row on the same token, the first of
\* which finds the session, the first removes the record and reports
\* success; the second reports failure, raises nothing and leaves users.json
\* and sessions.json as they were.
C12_LogoutIdempotent ==
    [][/\ (/\ res'.op = "logout_user"
           /\ res'.session_id \in DOMAIN sessions_file
           /\ Parsable(sessions_file[res'.session_id].expires_at)
           /\ sessions_file[res'.session_id].expires_at > now
           /\ sessions_file[res'.session_id].is_active)
          => /\ res'.success
             /\ res'.session_id \notin DOMAIN sessions_file'
       /\ (/\ res.op = "logout_user"
           /\ res.success
           /\ res'.op = "logout_user"
           /\ res'.session_id = res.session_id)
          => /\ ~res'.success
             /\ res'.error = "Session not found"
             /\ res'.raised = ""
             /\ UNCHANGED <<file_state, users_file, sessions_file>>]_vars

\* The same token was logged out twice in a row and the second call reported
\* that there was nothing to delete.
C12_Witness ==
    /\ prev.op = "logout_user"
    /\ prev.success
    /\ res.op = "logout_user"
    /\ res.session_id = prev.session_id
    /\ ~res.success
    /\ res.raised = ""

\* C13: with enable_guest_mode false in the configuration, guest_session
\* returns a failure whose error is 'Guest mode is disabled', hands out no
\* token and leaves sessions.json as it was.
C13_GuestDisabled ==
    [][(res'.op = "guest_session" /\ ~config.enable_guest_mode)
       => /\ ~res'.success
          /\ res'.error = "Guest mode is disabled"
          /\ res'.session_id = 0
          /\ UNCHANGED <<file_state, sessions_file, next_token>>]_vars

\* guest_session was turned down under a configuration that disables guest
\* mode, while sessions.json holds a session.
C13_Witness ==
    /\ res.op = "guest_session"
    /\ ~config.enable_guest_mode
    /\ ~res.success
    /\ sessions_file # EmptyMap

\* C14: validate_session answers a token whose record is not in
\* sessions.json, a token whose record is past its expiry and a token whose
\* record has an expires_at that does not parse with three different
\* reasons, the ones its branches name: 'Session not found', 'Session
\* expired' and 'Invalid session data'.
C14_DistinctReasons ==
    [][(res'.op = "validate_session" /\ res'.session_id # 0)
       => LET t == res'.session_id
          IN  /\ t \notin DOMAIN sessions_file
                 => res'.error = "Session not found"
              /\ (t \in DOMAIN sessions_file
                  /\ ~Parsable(sessions_file[t].expires_at))
                 => res'.error = "Invalid session data"
              /\ (/\ t \in DOMAIN sessions_file
                  /\ Parsable(sessions_file[t].expires_at)
                  /\ now > sessions_file[t].expires_at)
                 => res'.error = "Session expired"]_vars

\* The position of a role in the order viewer(1) < pm(2) < admin(3).
C15_Position(r) ==
    CASE r = "viewer" -> 1
      [] r = "pm" -> 2
      [] r = "admin" -> 3

\* C15: a route that asks for the minimum role M, entered by a validated
\* user of role R (both among viewer, pm, admin), is granted exactly when
\* the position of R is at least the position of M; admin satisfies pm, pm
\* satisfies pm, viewer does not satisfy pm, and "R satisfies M" is
\* reflexive and transitive over the three roles.
C15_RoleOrdering ==
    [][(/\ res'.op = "require_role"
        /\ res.op = "validate_session"
        /\ res.success
        /\ res.role \in Roles
        /\ res'.required_role \in Roles)
       => /\ res'.success <=>
                C15_Position(res.role) >= C15_Position(res'.required_role)
          /\ ~Insufficient("admin", "pm")
          /\ ~Insufficient("pm", "pm")
          /\ Insufficient("viewer", "pm")
          /\ \A r \in Roles : ~Insufficient(r, r)
          /\ \A a, b, c \in Roles :
                (~Insufficient(a, b) /\ ~Insufficient(b, c)) => ~Insufficient(a, c)]_vars

\* A validated admin entered a route that asks for pm and was let in.
C15_Witness ==
    /\ res.op = "require_role"
    /\ res.role = "admin"
    /\ res.required_role = "pm"
    /\ res.success

\* What C16 says of a login apart from the other sessions: a failed
\* authenticate_user leaves users.json and sessions.json as they were; a
\* successful one adds exactly one session, under a new token, owned by the
\* user whose email was given, sets that user's last_login to the session's
\* created_at and changes nothing else in users.json.
C16_LoginEffects ==
    /\ (res'.op = "authenticate_user" /\ ~res'.success)
       => UNCHANGED <<file_state, users_file, sessions_file, next_token>>
    /\ (res'.op = "authenticate_user" /\ res'.success)
       => LET sid == res'.session_id
              uid == res'.user_id
          IN  /\ (DOMAIN sessions_file') \ (DOMAIN sessions_file) = {sid}
              /\ sessions_file'[sid].user_id = uid
              /\ uid \in DOMAIN users_file
              /\ Lower(users_file[uid].email) = Lower(res'.email)
              /\ DOMAIN users_file' = DOMAIN users_file
              /\ users_file'[uid] =
                    [users_file[uid] EXCEPT
                        !.last_login = <<sessions_file'[sid].created_at>>]
              /\ \A u \in (DOMAIN users_file) \ {uid} : users_file'[u] = users_file[u]

\* C16 as stated: the login effects, and a successful login changes no other
\* record of sessions.json.
C16_NoOtherSession ==
    [][/\ C16_LoginEffects
       /\ (res'.op = "authenticate_user" /\ res'.success)
          => \A s \in DOMAIN sessions_file :
                s \in DOMAIN sessions_file' /\ sessions_file'[s] = sessions_file[s]]_vars

\* C16: the login effects, and a successful login changes no other session
\* that is unexpired, active and well-formed, and adds no other record (the
\* other records, which no load returns any more, are dropped by the
\* login's save).
C16_NoOtherLiveSession ==
    [][/\ C16_LoginEffects
       /\ (res'.op = "authenticate_user" /\ res'.success)
          => /\ (DOMAIN sessions_file') \subseteq
                   (DOMAIN sessions_file) \cup {res'.session_id}
             /\ \A s \in DOMAIN sessions_file :
                   (/\ Parsable(sessions_file[s].expires_at)
                    /\ sessions_file[s].expires_at > now
                    /\ sessions_file[s].is_active)
                   => /\ s \in DOMAIN sessions_file'
                      /\ sessions_file'[s] = sessions_file[s]]_vars

\* A login went through while sessions.json held another live session, which
\* is still there.
C16_Witness ==
    /\ res.op = "authenticate_user"
    /\ res.success
    /\ users_file[res.user_id].last_login = <<now>>
    /\ Cardinality(DOMAIN sessions_file) >= 2

C18_Dead(r, t) ==
    \/ ~Parsable(r.expires_at)
    \/ r.expires_at <= t
    \/ ~r.is_active

\* The calls whose result r tells that they saved sessions.json after
\* loading it.
C18_Saved(r) ==
    \/ r.op \in {"authenticate_user", "guest_session", "logout_user"} /\ r.success
    \/ /\ r.op = "validate_session"
       /\ \/ r.success
          \/ r.error = "User account not found or disabled"
          \/ r.raised # ""

\* C18: a load of the session collection returns the stored records whose
\* expires_at parses and lies strictly in the future and whose is_active is
\* true, and no other; the listing of a user's sessions shows none of the
\* others and their tokens are answered 'Session not found'; and after a
\* call that saved what it had loaded, sessions.json holds none of them.
C18_GarbageCollection ==
    [][/\ res'.op = "load_sessions"
          => /\ res'.raised = ""
             /\ DOMAIN res'.value =
                   {s \in DOMAIN sessions_file : ~C18_Dead(sessions_file[s], now)}
             /\ \A s \in DOMAIN res'.value : res'.value[s] = sessions_file[s]
       /\ (res'.op = "get_user_sessions" /\ res'.success)
          => \A i \in DOMAIN res'.value :
                /\ res'.value[i] \in DOMAIN sessions_file
                /\ ~C18_Dead(sessions_file[res'.value[i]], now)
       /\ (/\ res'.op \in {"validate_session", "logout_user"}
           /\ res'.session_id \in DOMAIN sessions_file
           /\ C18_Dead(sessions_file[res'.session_id], now))
          => (~res'.success /\ res'.error = "Session not found")
       /\ C18_Saved(res')
          => \A s \in DOMAIN sessions_file' : ~C18_Dead(sessions_file'[s], now)]_vars

\* A load has returned nothing although sessions.json holds a record (one
\* that is expired, inactive or malformed).
C18_Witness ==
    /\ res.op = "load_sessions"
    /\ res.value = EmptyMap
    /\ sessions_file # EmptyMap

\* What C19 says of the user collection: _load_users raises nothing and
\* returns the empty mapping when users.json is absent or unparsable, and
\* the stored mapping otherwise.
C19_LoadUsers ==
    res'.op = "load_users"
    => /\ res'.raised = ""
       /\ res'.value = IF file_state.users = "json" THEN users_file ELSE EmptyMap

\* C19 as stated: the same for both collections; _load_sessions returns the
\* stored mapping when sessions.json parses.
C19_LoadReturnsStored ==
    [][/\ C19_LoadUsers
       /\ res'.op = "load_sessions"
          => /\ res'.raised = ""
             /\ res'.value =
                   IF file_state.sessions = "json" THEN sessions_file ELSE EmptyMap]_vars

\* C19: no load raises; each returns the empty mapping when its file is
\* absent or unparsable; otherwise _load_users returns the stored mapping
\* and _load_sessions returns the stored mapping without the records that
\* are expired, inactive or malformed.
C19_LoadNeverRaises ==
    [][/\ C19_LoadUsers
       /\ res'.op = "load_sessions"
          => /\ res'.raised = ""
             /\ res'.value =
                   IF file_state.sessions = "json"
                   THEN [s \in {x \in DOMAIN sessions_file :
                                    ~C18_Dead(sessions_file[x], now)}
                            |-> sessions_file[s]]
                   ELSE EmptyMap]_vars

\* users.json does not parse and a load of it has returned the empty
\* mapping without raising.
C19_Witness ==
    /\ res.op = "load_users"
    /\ file_state.users = "unparsable"
    /\ res.raised = ""
    /\ res.value = EmptyMap

\* C20: whatever JSON the backing files hold, records that lack a field
\* included, create_user, authenticate_user, validate_session, logout_user,
\* get_user_sessions and guest_session return a result and raise nothing.
C20_NoOperationRaises ==
    res.op \in {"create_user", "authenticate_user", "validate_session",
                "logout_user", "get_user_sessions", "guest_session"}
    => res.raised = ""

\* C21: a register request made while allow_registration is false is
\* answered with the 'registration disabled' failure, which is neither the
\* validation message nor the duplicate-email message, and leaves users.json
\* as it was; while the flag is true a request that passes the field
\* validation is exactly a create_user call on the stripped email and name
\* and the password, and its answer is that call's result.
C21_RegistrationGating ==
    [][res'.op \in {"api_register", "create_user"} =>
          /\ ~config.allow_registration =>
                /\ res' = [NoResult EXCEPT !.op = "api_register",
                                           !.error = RegistrationDisabledError]
                /\ RegistrationDisabledError \notin {RegisterFieldsError, EmailExistsError}
                /\ UNCHANGED <<users_file, file_state, next_uid>>
          /\ config.allow_registration =>
                \/ /\ res' = [NoResult EXCEPT !.op = "api_register",
                                              !.error = RegisterFieldsError]
                   /\ UNCHANGED <<users_file, file_state, next_uid>>
                \/ \E email \in WebEmailInputs, name \in WebNameInputs,
                      password \in WebPasswordInputs :
                      /\ Strip(email) # <<>> /\ Strip(name) # <<>> /\ password # <<>>
                      /\ CreateUser(Strip(email), Strip(name), password, "pm")]_vars

\* A register request has just been refused because registration is closed,
\* and the default account is still the only one stored.
C21_Witness ==
    /\ ~config.allow_registration
    /\ res.op = "api_register"
    /\ res.error = RegistrationDisabledError
    /\ DOMAIN users_file = {DefaultUserId}

\* C22: a user created through the register operation is stored with the
\* role the configuration names as default_role, whichever of viewer, pm and
\* admin that is.
C22_DefaultRole ==
    [][res'.op = "create_user" /\ res'.success =>
          users_file'[res'.user_id].role = config.default_role]_vars

\* C23: when calls interleave at load and save granularity the last writer
\* wins: each save leaves in the file exactly the mapping its own call
\* loaded, with that call's one change, whatever other calls have saved in
\* between.  A reachable outcome (C23_Witness) is that a session one login
\* wrote and reported is missing from sessions.json; another
\* (C23_Restored) is that a session a logout deleted is back in the file.
C23_LastWriterWins ==
    [][\A p \in Threads :
          /\ procs[p].pc = "login_save_sessions" /\ procs'[p].pc = "login_save_users"
                => sessions_file' = Put(procs[p].sessions, procs[p].session_id,
                                        NewSession(p))
          /\ procs[p].pc = "logout_save" /\ procs'[p].pc = "done"
                => sessions_file' = Remove(procs[p].sessions, procs[p].session_id)
          /\ procs[p].pc = "create_save" /\ procs'[p].pc = "done"
                => users_file' = Put(procs[p].users, procs[p].user_id, NewUser(p))
          /\ procs[p].pc = "login_save_users" /\ procs'[p].pc = "done"
                => users_file' = Put(procs[p].users, procs[p].user_id,
                                     TouchLogin(procs[p].users[procs[p].user_id], now))]_vars

\* Two logins have both returned success, no logout has run, and the
\* session of one of them is not in sessions.json.
C23_Witness ==
    \E p, q \in Threads :
        /\ p # q
        /\ \A r \in Threads : procs[r].op # "logout_user"
        /\ procs[p].pc = "done" /\ procs[p].op = "authenticate_user" /\ procs[p].success
        /\ procs[q].pc = "done" /\ procs[q].op = "authenticate_user" /\ procs[q].success
        /\ procs[q].session_id \in DOMAIN sessions_file
        /\ procs[p].session_id \notin DOMAIN sessions_file

\* A logout has returned success for a stored session, a login has
\* returned success, and the session logged out is in sessions.json.
C23_Restored ==
    \E p, q \in Threads :
        /\ procs[p].pc = "done" /\ procs[p].op = "logout_user" /\ procs[p].success
        /\ procs[q].pc = "done" /\ procs[q].op = "authenticate_user" /\ procs[q].success
        /\ procs[p].session_id \in DOMAIN sessions_file

\* C26: a request to a route under require_auth that carries a token is let
\* through exactly when the application's own manager, the one the login
\* and guest endpoints write with, finds the session valid: the manager the
\* decorator builds reads the same users and sessions files, from whatever
\* directory the process was started.
C26_SharedStore ==
    [][res'.op = "require_auth" /\ res'.session_id # 0 =>
          (res'.success <=>
              ValidateSessionIn(AppAuth, res'.session_id, now).res.success)]_vars

\* C27: of the create_user calls that run concurrently with emails equal
\* after case-folding at most one returns success, and users.json never
\* holds two records with the same case-folded email.
C27_OneCreateSucceeds ==
    /\ \A p, q \in Threads :
          /\ p # q
          /\ procs[p].op = "create_user" /\ procs[p].success
          /\ procs[q].op = "create_user" /\ procs[q].success
          => Lower(procs[p].email) # Lower(procs[q].email)
    /\ \A u1, u2 \in DOMAIN users_file :
          u1 # u2 => Lower(users_file[u1].email) # Lower(users_file[u2].email)

\* The distinct tool names of the list.
C24_Present == {tools[i].name : i \in DOMAIN tools}

\* The dependencies of the tool named n that are present in the list.
C24_Depends(n) ==
    LET t == ToolMap(tools)[n]
    IN  {t.depends_on[i] : i \in DOMAIN t.depends_on} \cap C24_Present

RECURSIVE C24_Closure(_)

\* The names reachable from the set S along present dependencies.
C24_Closure(S) ==
    LET T == S \cup UNION {C24_Depends(n) : n \in S}
    IN  IF T = S THEN S ELSE C24_Closure(T)

\* The depends_on relation restricted to the list has a cycle: some tool is
\* reachable from its own dependencies.
C24_Cyclic == \E n \in C24_Present : n \in C24_Closure(C24_Depends(n))

\* C24: for a tool list whose depends_on relation, restricted to the tools
\* of the list, is acyclic, _resolve_dependencies returns a list that holds
\* each distinct tool name of the input exactly once and no other, and in
\* which every tool comes after each of its dependencies that is in the
\* input; dependencies not in the input play no part.
C24_ResolutionOrder ==
    resolution.done /\ ~C24_Cyclic =>
        LET resolved == resolution.resolved
        IN  /\ resolution.raised = ""
            /\ Len(resolved) = Cardinality(C24_Present)
            /\ \A n \in C24_Present :
                  Cardinality({i \in DOMAIN resolved : resolved[i].name = n}) = 1
            /\ \A i \in DOMAIN resolved :
                  /\ resolved[i] = ToolMap(tools)[resolved[i].name]
                  /\ \A d \in C24_Depends(resolved[i].name) :
                        \E j \in 1..(i - 1) : resolved[j].name = d

\* An acyclic list of three entries was resolved to two tools: one name
\* occurs twice in the input, one tool depends on the other, and one
\* depends on a tool that is not in the input.
C24_Witness ==
    /\ resolution.done /\ ~C24_Cyclic
    /\ Len(resolution.resolved) = 2
    /\ Len(tools) = 3
    /\ \E i \in DOMAIN tools : MissingTool \in {tools[i].depends_on[k] :
                                                 k \in DOMAIN tools[i].depends_on}
    /\ \E i \in DOMAIN tools : C24_Depends(tools[i].name) # {}

\* C25: _resolve_dependencies raises the 'Circular dependency detected'
\* error exactly when the depends_on relation restricted to the tools of
\* the list has a cycle, a tool that depends on itself included; an
\* acyclic list, with a tool reached along two paths or not, never raises.
C25_CycleDetection ==
    resolution.done => (resolution.raised # "" <=> C24_Cyclic)

\* Three tools were resolved without an error although one of them is
\* reached along two paths: it is a dependency of a tool and of another of
\* that tool's dependencies.
C25_Witness ==
    /\ resolution.done /\ resolution.raised = ""
    /\ \E x, y, z \in C24_Present :
          /\ x # y /\ y # z /\ x # z
          /\ C24_Depends(x) = {y, z}
          /\ C24_Depends(y) = {z}

\* C28: when create_user returns success the user it reports is in
\* users.json, and when authenticate_user or guest_session returns success
\* the session it reports is in sessions.json; a call whose write of the
\* backing file fails does not report success.
C28_SuccessPersisted ==
    [][res'.success =>
          /\ res'.op = "create_user" =>
                /\ file_state'.users = "json"
                /\ res'.user_id \in DOMAIN users_file'
          /\ res'.op \in {"authenticate_user", "guest_session"} =>
                /\ file_state'.sessions = "json"
                /\ res'.session_id \in DOMAIN sessions_file']_vars

\* C29: every manager constructed over the directory hashes with the
\* secret_key of the one before it, so that each stored password_hash that
\* a password verified against before the construction still verifies
\* against it afterwards; this holds also when auth_config.json has no
\* secret_key entry, cannot be read, or could not be written.
C29_SecretStable ==
    [][res'.op = "construct" =>
          /\ config'.secret_key = config.secret_key
          /\ \A u \in DOMAIN users_file, password \in PasswordInputs \cup {DefaultPassword} :
                /\ u \in DOMAIN users_file'
                /\ users_file[u].password_hash = HashWith(password, config.secret_key)
                => users_file'[u].password_hash = HashWith(password, config'.secret_key)]_vars

\* C30: constructing a manager writes users.json only when the file is
\* absent or holds an empty mapping; a file that exists and cannot be
\* parsed or read is left as it is.
C30_ConstructPreserves ==
    [][res'.op = "construct"
       /\ (users_file' # users_file \/ file_state'.users # file_state.users)
       => \/ file_state.users = "absent"
          \/ file_state.users = "json" /\ users_file = EmptyMap]_vars

====
